---- MODULE Spec2Model ----
(***************************************************************************)
(* State-machine model of the EBike range display firmware (src/ble.py,    *)
(* src/display.py): the peer admission loop peripheral_task, the command   *)
(* channel rx_task with its payload interpreter, and the shared dictionary *)
(* sensor_data.                                                            *)
(*                                                                         *)
(* Text is modelled character by character: a Python str is a sequence of  *)
(* one-character strings, so strip/split/startswith/float/json.loads are   *)
(* computed on the characters exactly as the code does.  Numbers are kept  *)
(* as integers in hundredths (5.5 is 550); every literal the model draws   *)
(* has at most two decimals.                                               *)
(*                                                                         *)
(* Further parts: the publisher ble_update with the desktop client's       *)
(* decoders and notification handlers (src/BLE_Demo_Laptop/ebike_gui.py),  *)
(* the polling loop of src/main.py, and the terminal client                *)
(* (src/BLE_Demo_Laptop/ebike_terminal.py) with its worker thread and      *)
(* command loop.  Each part has its own specification over the same        *)
(* variables; the parts it does not model stay at their initial values.    *)
(***************************************************************************)
EXTENDS Integers, Sequences, FiniteSets, TLC

VARIABLES
    authorized_peer,  \* ble.py:74   _authorized_peer: None or (addr_type, addr)
    pc,               \* position of peripheral_task (ble.py:222-262)
    link,             \* the central that currently has a link to the device, or None
    conn,             \* connection.device of the connection advertise() returned
    rx_written,       \* rx_ch: a write has been signalled and not yet consumed
    rx_data,          \* rx_ch: the characteristic's stored bytes
    rx_from,          \* the peer whose write stored rx_data
    rx_pc,            \* position of rx_task (ble.py:129-219)
    rx_value,         \* ble.py:7    module global rx_value
    sensor_data,      \* display.py:6-16, the fields the command channel writes
    rx_trace,         \* what the last pass of rx_task did (history)
    admissions,       \* how many connections were accepted / rejected so far (history)
    chars,            \* ble.py:39-57  values of voltage_ch .. temperature_ch
    upd,              \* the last call of ble_update and how it ended (history)
    subscribed,       \* ebike_gui.py:92-96  the characteristics start_notify was called for
    notify_q,         \* notifications sent and not yet handed to the client's handler
    sensor_state,     \* ebike_gui.py:19-25  the client's dictionary
    sub_trace,        \* what was published to the client and what its handlers got (history)
    main_loop,        \* main.py:52-76  the polling loop: position, reading, display
    client,           \* ebike_terminal.py:14  None or the BleakClient
    is_connected,     \* client.is_connected: the BleakClient has a link to the device
    ble_running,      \* ebike_terminal.py:16
    connected_event,  \* ebike_terminal.py:17  the threading.Event is set
    worker_pc,        \* position of ble_worker (ebike_terminal.py:36-74)
    cmd_pc,           \* position of the command loop (ebike_terminal.py:140-216)
    fields,           \* ebike_terminal.py:9-12  pas_field .. dist_field
    future,           \* the write handed to the worker's loop by send_payload
    printed,          \* the last line the command loop printed
    outbound,         \* ebike_terminal.py:167-175  the payload of the last send, and the
                      \* fields it was built from (history)
    display           \* display.py:149-155  display_task: position, the values the last
                      \* render_dashboard call read, and the write processed last by then

vars == << authorized_peer, pc, link, conn, rx_written, rx_data, rx_from,
           rx_pc, rx_value, sensor_data, rx_trace, admissions,
           chars, upd, subscribed, notify_q, sensor_state, sub_trace, main_loop,
           client, is_connected, ble_running, connected_event, worker_pc, cmd_pc,
           fields, future, printed, outbound, display >>

\* Python None where a peer is expected (a tuple, so it compares with peers)
None == << >>

-----------------------------------------------------------------------------
(* Python str operations, on sequences of characters *)

Space == " "
Quote == "\""
BadByte == "<ff>"   \* a byte that is not valid UTF-8 (only ever inside bytes)

UpperChars == << "A","B","C","D","E","F","G","H","I","J","K","L","M",
                 "N","O","P","Q","R","S","T","U","V","W","X","Y","Z" >>
LowerChars == << "a","b","c","d","e","f","g","h","i","j","k","l","m",
                 "n","o","p","q","r","s","t","u","v","w","x","y","z" >>
DigitChars == << "0","1","2","3","4","5","6","7","8","9" >>

IsDigit(c) == \E i \in 1..10 : DigitChars[i] = c
DigitVal(c) == (CHOOSE i \in 1..10 : DigitChars[i] = c) - 1

LowerChar(c) ==
    IF \E i \in 1..26 : UpperChars[i] = c
    THEN LowerChars[CHOOSE i \in 1..26 : UpperChars[i] = c]
    ELSE c

\* str.lower()
Lower(s) == [i \in 1..Len(s) |-> LowerChar(s[i])]

\* c in s
Contains(s, c) == \E i \in 1..Len(s) : s[i] = c

\* s.startswith(c), s.endswith(c) for a one-character c
StartsWith(s, c) == Len(s) >= 1 /\ s[1] = c
EndsWith(s, c) == Len(s) >= 1 /\ s[Len(s)] = c

\* str.strip(): drop leading and trailing whitespace
Strip(s) ==
    LET nonsp == {i \in 1..Len(s) : s[i] # Space}
    IN  IF nonsp = {} THEN << >>
        ELSE LET lo == CHOOSE i \in nonsp : \A j \in nonsp : i <= j
                 hi == CHOOSE i \in nonsp : \A j \in nonsp : i >= j
             IN  SubSeq(s, lo, hi)

\* index of the first c in s at or after i, or 0
FindFrom(s, c, i) ==
    LET hits == {j \in i..Len(s) : s[j] = c}
    IN  IF hits = {} THEN 0 ELSE CHOOSE j \in hits : \A k \in hits : j <= k

\* s.split(c): always at least one part
RECURSIVE Split(_, _)
Split(s, c) ==
    LET j == FindFrom(s, c, 1)
    IN  IF j = 0 THEN << s >>
        ELSE << SubSeq(s, 1, j - 1) >> \o Split(SubSeq(s, j + 1, Len(s)), c)

\* p.split(c, 1) for a p that contains c: the text before and after the first c
SplitFirst(p, c) ==
    LET j == FindFrom(p, c, 1)
    IN  << SubSeq(p, 1, j - 1), SubSeq(p, j + 1, Len(p)) >>

\* the bytes of data that are valid UTF-8, in order
RECURSIVE DropInvalid(_)
DropInvalid(data) ==
    IF data = << >> THEN << >>
    ELSE IF Head(data) = BadByte THEN DropInvalid(Tail(data))
         ELSE << Head(data) >> \o DropInvalid(Tail(data))

\* mutant: decode("utf-8") with the default error handler, which raises on an
\* invalid byte
decodeStrict(data) ==
    [ok |-> \A i \in 1..Len(data) : data[i] # BadByte, text |-> DropInvalid(data)]

\* data.decode("utf-8", "ignore"): invalid bytes are dropped, nothing is raised.
\* Result [ok, text]: ok = FALSE would be a UnicodeError.
decode(data) == [ok |-> TRUE, text |-> DropInvalid(data)]

RECURSIVE DigitsValue(_)
DigitsValue(ds) ==
    IF ds = << >> THEN 0
    ELSE 10 * DigitsValue(SubSeq(ds, 1, Len(ds) - 1)) + DigitVal(ds[Len(ds)])

AllDigits(ds) == \A i \in 1..Len(ds) : IsDigit(ds[i])

\* the fraction digits fs as hundredths (digits after the second are dropped)
FracHundredths(fs) ==
    IF Len(fs) = 0 THEN 0
    ELSE IF Len(fs) = 1 THEN 10 * DigitVal(fs[1])
    ELSE 10 * DigitVal(fs[1]) + DigitVal(fs[2])

\* float(str): optional surrounding whitespace, optional sign, digits with an
\* optional point and at least one digit; anything else raises ValueError.
\* Result [ok, val]: ok = FALSE is the exception, val is in hundredths.
FloatOfParts(neg, ip, fp) ==
    IF AllDigits(ip) /\ AllDigits(fp) /\ Len(ip) + Len(fp) >= 1
    THEN [ok |-> TRUE,
          val |-> (IF neg THEN -1 ELSE 1) * (100 * DigitsValue(ip) + FracHundredths(fp))]
    ELSE [ok |-> FALSE, val |-> 0]

FloatAtPoint(neg, u, dot) ==
    IF dot = 0 THEN FloatOfParts(neg, u, << >>)
    ELSE FloatOfParts(neg, SubSeq(u, 1, dot - 1), SubSeq(u, dot + 1, Len(u)))

FloatUnsigned(neg, u) == FloatAtPoint(neg, u, FindFrom(u, ".", 1))

FloatStripped(t) ==
    IF StartsWith(t, "-") THEN FloatUnsigned(TRUE, Tail(t))
    ELSE IF StartsWith(t, "+") THEN FloatUnsigned(FALSE, Tail(t))
    ELSE FloatUnsigned(FALSE, t)

float(v) == FloatStripped(Strip(v))

-----------------------------------------------------------------------------
(* Python values held in pas_val / returned by json.loads *)

Str(s)  == [t |-> "str",  s |-> s,     n |-> 0]
Num(x)  == [t |-> "num",  s |-> << >>, n |-> x]
Bool(b) == [t |-> "bool", s |-> << >>, n |-> IF b THEN 100 ELSE 0]
Null    == [t |-> "null", s |-> << >>, n |-> 0]

\* truthiness of a value (the left operand of `x or 0`)
Truthy(x) ==
    CASE x.t = "str"  -> x.s # << >>
      [] x.t = "num"  -> x.n # 0
      [] x.t = "bool" -> x.n # 0
      [] OTHER        -> FALSE

\* float(x or 0) for a value x
FloatOrZero(x) ==
    IF ~Truthy(x) THEN [ok |-> TRUE, val |-> 0]
    ELSE IF x.t = "str" THEN float(x.s)
    ELSE [ok |-> TRUE, val |-> x.n]

-----------------------------------------------------------------------------
(* json.loads on the texts the model draws: one flat object whose members  *)
(* are "key": value with value a string without escapes, a number          *)
(* -?digits(.digits)?, or null / true / false.  Result [ok, obj]: ok =     *)
(* FALSE is the ValueError; obj is the sequence of <<key, value>> members. *)

\* first position at or after i that holds no whitespace (Len(s)+1 if none)
SkipWs(s, i) ==
    LET rest == {j \in i..Len(s) : s[j] # Space}
    IN  IF rest = {} THEN Len(s) + 1 ELSE CHOOSE j \in rest : \A k \in rest : j <= k

JsonFail == [ok |-> FALSE, val |-> Null, next |-> 0]

\* s[i..] starts with the word w
WordAt(s, i, w) == i + Len(w) - 1 <= Len(s) /\ SubSeq(s, i, i + Len(w) - 1) = w

IsNumChar(c) == IsDigit(c) \/ c = "." \/ c = "-"

\* end of the run of number characters that starts at i
NumEnd(s, i) ==
    LET stops == {j \in i..Len(s) : ~IsNumChar(s[j])}
    IN  IF stops = {} THEN Len(s) ELSE (CHOOSE j \in stops : \A k \in stops : j <= k) - 1

\* a JSON number without its sign: digits(.digits)?
JsonDigitsOk(u, dot) ==
    IF dot = 0 THEN Len(u) >= 1 /\ AllDigits(u)
    ELSE /\ dot > 1 /\ dot < Len(u)
         /\ AllDigits(SubSeq(u, 1, dot - 1))
         /\ AllDigits(SubSeq(u, dot + 1, Len(u)))

JsonUnsignedOk(u) == JsonDigitsOk(u, FindFrom(u, ".", 1))

\* a JSON number: -?digits(.digits)?
JsonNumberOk(txt) == JsonUnsignedOk(IF StartsWith(txt, "-") THEN Tail(txt) ELSE txt)

\* the string whose opening quote is at i and closing quote at j (0: none)
ParseString(s, i, j) ==
    IF j = 0 THEN JsonFail
    ELSE [ok |-> TRUE, val |-> Str(SubSeq(s, i + 1, j - 1)), next |-> j + 1]

\* the number text txt that ends at e
ParseNumber(txt, e) ==
    IF JsonNumberOk(txt) THEN [ok |-> TRUE, val |-> Num(float(txt).val), next |-> e + 1]
    ELSE JsonFail

\* the value that starts at s[i]: [ok, val, next], next the position after it
ParseValue(s, i) ==
    IF i > Len(s) THEN JsonFail
    ELSE IF s[i] = Quote THEN ParseString(s, i, FindFrom(s, Quote, i + 1))
    ELSE IF IsNumChar(s[i]) THEN ParseNumber(SubSeq(s, i, NumEnd(s, i)), NumEnd(s, i))
    ELSE IF WordAt(s, i, << "n","u","l","l" >>) THEN
        [ok |-> TRUE, val |-> Null, next |-> i + 4]
    ELSE IF WordAt(s, i, << "t","r","u","e" >>) THEN
        [ok |-> TRUE, val |-> Bool(TRUE), next |-> i + 4]
    ELSE IF WordAt(s, i, << "f","a","l","s","e" >>) THEN
        [ok |-> TRUE, val |-> Bool(FALSE), next |-> i + 5]
    ELSE JsonFail

LoadsFail == [ok |-> FALSE, obj |-> << >>]

\* after the closing brace at m only whitespace may follow
CloseObject(s, m, acc) ==
    IF SkipWs(s, m + 1) = Len(s) + 1 THEN [ok |-> TRUE, obj |-> acc] ELSE LoadsFail

RECURSIVE ParseMembers(_, _, _)

\* after a member: a comma and the next member, or the closing brace
MemberNext(s, m, acc) ==
    IF m > Len(s) THEN LoadsFail
    ELSE IF s[m] = "," THEN ParseMembers(s, SkipWs(s, m + 1), acc)
    ELSE IF s[m] = "}" THEN CloseObject(s, m, acc)
    ELSE LoadsFail

MemberValue(s, key, v, acc) ==
    IF ~v.ok THEN LoadsFail
    ELSE MemberNext(s, SkipWs(s, v.next), Append(acc, << key, v.val >>))

MemberColon(s, key, k, acc) ==
    IF k > Len(s) \/ s[k] # ":" THEN LoadsFail
    ELSE MemberValue(s, key, ParseValue(s, SkipWs(s, k + 1)), acc)

MemberKey(s, i, j, acc) ==
    IF j = 0 THEN LoadsFail
    ELSE MemberColon(s, SubSeq(s, i + 1, j - 1), SkipWs(s, j + 1), acc)

\* the members from position i (the opening quote of a key) on
ParseMembers(s, i, acc) ==
    IF i > Len(s) \/ s[i] # Quote THEN LoadsFail
    ELSE MemberKey(s, i, FindFrom(s, Quote, i + 1), acc)

LoadsFrom(s, i) ==
    IF i <= Len(s) /\ s[i] = "}" THEN CloseObject(s, i, << >>)
    ELSE ParseMembers(s, i, << >>)

\* json.loads(s) for an s that starts with "{"
loads(s) == LoadsFrom(s, SkipWs(s, 2))

\* obj.get(key, default): the last member with that key wins
get(obj, key, default) ==
    LET hits == {i \in 1..Len(obj) : obj[i][1] = key}
    IN  IF hits = {} THEN default
        ELSE obj[CHOOSE i \in hits : \A j \in hits : i >= j][2]

-----------------------------------------------------------------------------
(* The payload interpreter of rx_task (ble.py:141-212).  The three locals  *)
(* pas_val, speed_val, c_range_val travel through the framings as a record *)
(* [pas, speed, c_range]; each framing returns them with its flag parsed.  *)

kPas    == << "p","a","s" >>
kRx     == << "r","x" >>
kSpeed  == << "s","p","e","e","d" >>
kCRange == << "c","_","r","a","n","g","e" >>
kRange  == << "r","a","n","g","e" >>
kCrange == << "c","r","a","n","g","e" >>

\* ble.py:142-144
Defaults == [pas |-> Str(<< >>), speed |-> 0, c_range |-> 0]

\* ble.py:149-152: ujson is part of the MicroPython firmware the file targets
json_available == TRUE

\* ble.py:155
JsonTriggered(s) == json_available /\ StartsWith(s, "{") /\ EndsWith(s, "}")

\* speed_val = f / c_range_val = f when the conversion f did not raise
SetSpeed(in, f) == IF f.ok THEN [in EXCEPT !.speed = f.val] ELSE in
SetRange(in, f) == IF f.ok THEN [in EXCEPT !.c_range = f.val] ELSE in

\* ble.py:160-161: the float() of c_range raised (cr.ok = FALSE) or not
JsonRange(v2, cr) ==
    IF ~cr.ok THEN [parsed |-> FALSE, vals |-> v2]
    ELSE [parsed |-> TRUE, vals |-> [v2 EXCEPT !.c_range = cr.val]]

\* ble.py:159-160: the float() of speed raised (sp.ok = FALSE) or not
JsonSpeed(obj, v1, sp) ==
    IF ~sp.ok THEN [parsed |-> FALSE, vals |-> v1]
    ELSE JsonRange([v1 EXCEPT !.speed = sp.val],
                   FloatOrZero(get(obj, kCRange, Num(v1.c_range))))

\* ble.py:157-159: json.loads raised (o.ok = FALSE) or gave the object
JsonPas(o, in) ==
    IF ~o.ok THEN [parsed |-> FALSE, vals |-> in]
    ELSE JsonSpeed(o.obj,
                   [in EXCEPT !.pas = get(o.obj, kPas, get(o.obj, kRx, in.pas))],
                   FloatOrZero(get(o.obj, kSpeed, Num(in.speed))))

\* ble.py:156-163, entered with the locals in `in`.  An exception leaves the
\* locals assigned before it as they are and parsed = FALSE.
JsonFraming(s, in) == JsonPas(loads(s), in)

\* ble.py:166
KvTriggered(s) == Contains(s, ":") /\ Contains(s, ",")

\* ble.py:172-185: the trimmed, lower-cased key k and the trimmed value v
KvPair(k, v, in) ==
    IF k \in {kPas, kRx} THEN [in EXCEPT !.pas = Str(v)]
    ELSE IF k = kSpeed THEN SetSpeed(in, float(v))
    ELSE IF k \in {kCRange, kRange, kCrange} THEN SetRange(in, float(v))
    ELSE in

\* ble.py:170-171: one part of the key:value framing
KvPart(p, in) ==
    IF ~Contains(p, ":") THEN in
    ELSE KvPair(Lower(Strip(SplitFirst(p, ":")[1])), Strip(SplitFirst(p, ":")[2]), in)

\* ble.py:168-169
RECURSIVE KvParts(_, _)
KvParts(parts, in) ==
    IF parts = << >> THEN in
    ELSE KvParts(Tail(parts), KvPart(Strip(Head(parts)), in))

\* mutant: the key:value framing reports success only when a key was recognised
KvParsedIfMatched(parts) ==
    \E i \in 1..Len(parts) :
        /\ Contains(parts[i], ":")
        /\ Lower(Strip(SplitFirst(parts[i], ":")[1])) \in {kPas, kRx, kSpeed, kCRange, kRange, kCrange}

\* ble.py:186: the flag the key:value framing ends with
KvParsed(parts) == TRUE

\* ble.py:167-188
KvFraming(s, in) ==
    [parsed |-> KvParsed(Split(s, ",")), vals |-> KvParts(Split(s, ","), in)]

\* ble.py:191
CsvTriggered(s) == Contains(s, ",")

\* ble.py:194-195, 196-200, 201-205
CsvPas(parts, in) ==
    IF Len(parts) >= 1 THEN [in EXCEPT !.pas = Str(Strip(parts[1]))] ELSE in
CsvSpeed(parts, in) ==
    IF Len(parts) >= 2 THEN SetSpeed(in, float(Strip(parts[2]))) ELSE in
CsvRange(parts, in) ==
    IF Len(parts) >= 3 THEN SetRange(in, float(Strip(parts[3]))) ELSE in

\* ble.py:192-208
CsvFraming(s, in) ==
    [parsed |-> TRUE,
     vals |-> CsvRange(Split(s, ","), CsvSpeed(Split(s, ","), CsvPas(Split(s, ","), in)))]

\* ble.py:211-212
Fallback(s, in) == [in EXCEPT !.pas = Str(s)]

\* The pass through the framings keeps, next to the locals (vals) and the flag
\* parsed, which framing set the flag and which branches ran.
Start ==
    [parsed |-> FALSE, vals |-> Defaults, framing |-> "fallback", tried |-> {},
     json_raised |-> FALSE]

Ran(st, name, r) ==
    [st EXCEPT !.parsed = r.parsed, !.vals = r.vals, !.tried = @ \cup {name},
               !.framing = IF r.parsed THEN name ELSE @,
               !.json_raised = IF name = "json" THEN ~r.parsed ELSE @]

\* ble.py:154-163
TryJson(s, st) == IF JsonTriggered(s) THEN Ran(st, "json", JsonFraming(s, st.vals)) ELSE st
\* ble.py:166-188
TryKv(s, st) ==
    IF ~st.parsed /\ KvTriggered(s) THEN Ran(st, "kv", KvFraming(s, st.vals)) ELSE st
\* ble.py:191-208
TryCsv(s, st) ==
    IF ~st.parsed /\ CsvTriggered(s) THEN Ran(st, "csv", CsvFraming(s, st.vals)) ELSE st
\* ble.py:211-212
TryFallback(s, st) ==
    IF ~st.parsed
    THEN [st EXCEPT !.vals = Fallback(s, @), !.tried = @ \cup {"fallback"}]
    ELSE st

\* ble.py:146-212 entered with the locals and flag of st
interpretFrom(s, st) == TryFallback(s, TryCsv(s, TryKv(s, TryJson(s, st))))

\* ble.py:141-212 as a whole, for the trimmed text s
interpret(s) == interpretFrom(s, Start)

-----------------------------------------------------------------------------
(* Inputs *)

MaxAddr    == 2   \* distinct address values a central may have
MaxCount   == 2   \* the history counters stop counting here
MaxParts   == 3   \* most comma-separated parts in a drawn key:value / CSV payload
MaxMembers == 2   \* most members in a drawn JSON object

\* PeerIdentity: (addr_type, addr), as _format_peer returns it (ble.py:77-79)
Peers == (0..1) \X (1..MaxAddr)

RECURSIVE Join(_, _)
Join(parts, sep) ==
    IF parts = << >> THEN << >>
    ELSE IF Len(parts) = 1 THEN parts[1]
    ELSE parts[1] \o sep \o Join(Tail(parts), sep)

SeqsUpTo(S, lo, hi) == UNION {[1..n -> S] : n \in lo..hi}

Q(w) == << Quote >> \o w \o << Quote >>
Member(k, v) == Q(k) \o << ":" >> \o v

JsonMembers ==
    { Member(kPas, Q(<< "2" >>)),
      Member(kRx, << "3" >>),
      Member(kSpeed, << "5", ".", "5" >>),
      Member(kSpeed, Q(<< "a","b","c" >>)),
      Member(kSpeed, << "n","u","l","l" >>),
      Member(kCRange, Q(<< "1","0" >>)),
      Member(kCRange, Q(<< "x" >>)),
      Member(kRange, << "7" >>) }

JsonPayloads ==
    { << "{" >> \o Join(ms, << "," >>) \o << "}" >> : ms \in SeqsUpTo(JsonMembers, 0, MaxMembers) }

KvSegments ==
    { kPas \o << ":", "2" >>,
      << "R","X"," ",":"," ","3" >>,
      kSpeed \o << ":", "5", ".", "5" >>,
      kSpeed \o << ":", "a" >>,
      kRange \o << ":", "1", "0" >>,
      << "a", ":", "b" >>,
      << "c" >> }

KvPayloads ==
    { Join(ps, << "," >>) : ps \in SeqsUpTo(KvSegments, 2, MaxParts) }

CsvParts == { << "2" >>, << " ", "5", ".", "5" >>, << "a","b","c" >>, << >>, << "1","0" >> }

CsvPayloads ==
    { Join(ps, << "," >>) : ps \in SeqsUpTo(CsvParts, 2, MaxParts) }

OtherPayloads ==
    { << >>,
      << "h","e","l","l","o" >>,
      << " ", "h","i"," " >>,
      << "a", ":", "b" >>,
      << "7" >>,
      << BadByte >>,
      << BadByte, "h", "i", BadByte >>,
      << BadByte, "2", ",", "5", BadByte, ",", "1" >>,
      << "{" >>,
      << "{", " ", "}" >>,
      << "{", "h", "i", "}" >>,
      << "{" >> \o Member(kPas, Q(<< "2" >>)),
      << "{" >> \o Member(kPas, Q(<< "2" >>)) \o << "}", "}" >>,
      << "{" >> \o Member(kPas, Q(<< "2" >>)) \o << ",", "}" >>,
      << "{" >> \o kPas \o << ":", "2", "," >> \o kSpeed \o << ":", "5", "}" >>,
      << " " >> \o << "{" >> \o Member(kSpeed, << "4" >>) \o << "}", " " >> }

\* the byte payloads a central writes in the interpreter runs
Payloads == JsonPayloads \cup KvPayloads \cup CsvPayloads \cup OtherPayloads

\* the byte payloads a central writes in the admission runs
SmallPayloads == { << "9" >>, << "2", ",", "7" >> }

-----------------------------------------------------------------------------
(* State *)

\* display.py:6-16
SensorInit ==
    [ voltage |-> 0, current |-> 0, power |-> 0, pas |-> Str(<< >>), speed |-> 0,
      c_range |-> 0, dist |-> 0, battery |-> 0, connected |-> FALSE ]

NoTrace ==
    [ done |-> FALSE, from |-> None, owner |-> None, data |-> << >>, s |-> << >>,
      framing |-> "none", tried |-> {}, json_raised |-> FALSE,
      prior |-> SensorInit ]

\* mutant: a merge, speed and c_range are stored only when the pass set them
\* to something other than the default
StoreMerge(sd, vals) ==
    [sd EXCEPT !.pas = vals.pas,
               !.speed = IF vals.speed # 0 THEN vals.speed ELSE @,
               !.c_range = IF vals.c_range # 0 THEN vals.c_range ELSE @]

\* mutant: the task is suspended after the first of the three stores
StorePasFirst(sd, vals) == [sd EXCEPT !.pas = vals.pas]

\* ble.py:215-217: the three stores into the shared dictionary
Store(sd, vals) ==
    [sd EXCEPT !.pas = vals.pas, !.speed = vals.speed, !.c_range = vals.c_range]

\* ble.py:39-57: no characteristic is given an initial value
CharsInit ==
    [ voltage |-> << >>, current |-> << >>, power |-> << >>,
      temperature |-> << >>, battery |-> << >> ]

NoSample ==
    [ voltage |-> 0, current |-> 0, power |-> 0, temperature |-> 0, battery_level |-> 0 ]

NoUpdate == [ called |-> FALSE, sample |-> NoSample, raised |-> FALSE, written |-> {} ]

\* ebike_gui.py:19-25: a value is None, the empty tuple, or << x >> for the
\* number x a handler stored
StateInit ==
    [ voltage |-> None, current |-> None, power |-> None, battery |-> None,
      temp |-> None ]

\* the publisher and the desktop client, which the admission loop and the
\* command channel never touch
CharNames == { "voltage", "current", "power", "temperature", "battery" }

\* nothing published to the client yet, no handler called yet
NoDeliveries == [ expect |-> [c \in CharNames |-> << >>], in_order |-> TRUE, seen |-> {} ]

pub_vars == << chars, upd, subscribed, notify_q, sensor_state, sub_trace >>

\* main.py:56-59 before the first pass: nothing read, nothing drawn
NoReading == [ vbus |-> 0, curr |-> 0, pwr |-> 0, valid |-> FALSE ]

\* main.py:52: last_display is the time the loop is entered
MainInit ==
    [ pc |-> "read", reading |-> NoReading, since |-> 0, shown |-> NoReading,
      failed |-> FALSE ]

\* ebike_terminal.py:9-12
FieldsInit == [ pas |-> << "0" >>, speed |-> << "0" >>, range |-> << "0" >>, dist |-> << "0" >> ]

\* no send yet
NoOutbound == [ payload |-> << >>, staged |-> FieldsInit, built |-> FALSE ]

term_vars == << client, is_connected, ble_running, connected_event, worker_pc, cmd_pc,
                fields, future, printed, outbound >>

\* ebike_terminal.py:9-17, 83 and 126-127: the worker thread has been started,
\* the command loop is at its first prompt
TermInit ==
    /\ client = None
    /\ is_connected = FALSE
    /\ ble_running = TRUE
    /\ connected_event = FALSE
    /\ worker_pc = "scan"
    /\ cmd_pc = "input"
    /\ fields = FieldsInit
    /\ future = "none"
    /\ printed = "help"
    /\ outbound = NoOutbound

\* display_task has not rendered yet
DisplayInit ==
    [ pc |-> "render", rendered |-> FALSE,
      shown |-> [ pas |-> Str(<< >>), speed |-> 0, c_range |-> 0 ],
      after |-> [ done |-> FALSE, s |-> << >> ] ]

host_vars == << main_loop, term_vars, display >>

ext_vars == << pub_vars, host_vars >>

ExtInit ==
    /\ chars = CharsInit
    /\ upd = NoUpdate
    /\ subscribed = {}
    /\ notify_q = << >>
    /\ sensor_state = StateInit
    /\ sub_trace = NoDeliveries
    /\ main_loop = MainInit
    /\ TermInit
    /\ display = DisplayInit

Init ==
    /\ authorized_peer = None
    /\ pc = "advertise"
    /\ link = None
    /\ conn = None
    /\ rx_written = FALSE
    /\ rx_data = << >>
    /\ rx_from = None
    /\ rx_pc = "await"
    /\ rx_value = [set |-> FALSE, data |-> << >>]
    /\ sensor_data = SensorInit
    /\ rx_trace = NoTrace
    /\ admissions = [accepted |-> 0, rejected |-> 0]
    /\ ExtInit

-----------------------------------------------------------------------------
(* peripheral_task, ble.py:222-262 *)

periph_vars == << authorized_peer, pc, link, conn, admissions >>

Count(n) == IF n < MaxCount THEN n + 1 ELSE n
rx_vars == << rx_written, rx_data, rx_from, rx_pc, rx_value, sensor_data, rx_trace >>

\* ble.py:228-233: a central connects while the device advertises; advertise()
\* returns the connection and the task becomes runnable.
Connect(p) ==
    /\ pc = "advertise"
    /\ link = None
    /\ link' = p
    /\ conn' = p
    /\ pc' = "connected"
    /\ UNCHANGED << authorized_peer, admissions >>
    /\ UNCHANGED << rx_vars, ext_vars >>

\* mutant: the peers are compared by their address bytes alone
IsOwnerByAddr(peer, owner) == peer[2] = owner[2]

\* ble.py:244
IsOwner(peer, owner) == peer = owner

\* mutant: once an owner is set every connection is disconnected, the owner's too
AdmitFirstOnly ==
    /\ pc = "connected"
    /\ IF authorized_peer = None
         THEN /\ authorized_peer' = conn
              /\ pc' = "accepted"
         ELSE /\ UNCHANGED authorized_peer
              /\ pc' = "disconnecting"
    /\ admissions' = IF pc' = "accepted"
                        THEN [admissions EXCEPT !.accepted = Count(@)]
                        ELSE [admissions EXCEPT !.rejected = Count(@)]
    /\ UNCHANGED << link, conn >>
    /\ UNCHANGED << rx_vars, ext_vars >>

\* ble.py:234-250: the admission check, run without suspension once the task
\* is scheduled; it ends either at `await connection.disconnect()` (line 246)
\* or at `await connection.disconnected()` (line 251).
Admit ==
    /\ pc = "connected"
    /\ IF authorized_peer = None
         THEN /\ authorized_peer' = conn
              /\ pc' = "accepted"
         ELSE /\ UNCHANGED authorized_peer
              /\ pc' = IF ~IsOwner(conn, authorized_peer) THEN "disconnecting" ELSE "accepted"
    /\ admissions' = IF pc' = "accepted"
                        THEN [admissions EXCEPT !.accepted = Count(@)]
                        ELSE [admissions EXCEPT !.rejected = Count(@)]
    /\ UNCHANGED << link, conn >>
    /\ UNCHANGED << rx_vars, ext_vars >>

\* ble.py:246: connection.disconnect() completes, the link is down
DisconnectDone ==
    /\ pc = "disconnecting"
    /\ link' = None
    /\ pc' = "reject_sleep"
    /\ UNCHANGED << authorized_peer, conn, admissions >>
    /\ UNCHANGED << rx_vars, ext_vars >>

\* ble.py:247-248: the 100 ms sleep ends, `continue` leaves the with block and
\* the loop advertises again
RejectSleepDone ==
    /\ pc = "reject_sleep"
    /\ pc' = "advertise"
    /\ conn' = None
    /\ UNCHANGED << authorized_peer, link, admissions >>
    /\ UNCHANGED << rx_vars, ext_vars >>

\* the central drops the link (or it is lost); the task notices at its next await
PeerDisconnects ==
    /\ link # None
    /\ pc \in {"connected", "accepted", "disconnecting"}
    /\ link' = None
    /\ UNCHANGED << authorized_peer, pc, conn, admissions >>
    /\ UNCHANGED << rx_vars, ext_vars >>

\* ble.py:251-258: connection.disconnected() returns once the link is down
AcceptedEnds ==
    /\ pc = "accepted"
    /\ link = None
    /\ pc' = "pause"
    /\ UNCHANGED << authorized_peer, link, conn, admissions >>
    /\ UNCHANGED << rx_vars, ext_vars >>

\* mutant: the exception is not caught and ends the task
RaiseEndsTask ==
    /\ pc \in {"advertise", "disconnecting", "accepted"}
    /\ link' = None
    /\ pc' = "ended"
    /\ UNCHANGED << authorized_peer, conn, admissions >>
    /\ UNCHANGED << rx_vars, ext_vars >>

\* ble.py:254-258: an await of the loop raises (advertise, disconnect or
\* disconnected); leaving the with block closes the connection, the handler
\* prints, and the loop goes on to its pause
Raise ==
    /\ pc \in {"advertise", "disconnecting", "accepted"}
    /\ link' = None
    /\ pc' = "pause"
    /\ UNCHANGED << authorized_peer, conn, admissions >>
    /\ UNCHANGED << rx_vars, ext_vars >>

\* mutant: line 258 resets the owner instead of a local rx_value
PauseDoneForgetsOwner ==
    /\ pc = "pause"
    /\ pc' = "advertise"
    /\ conn' = None
    /\ authorized_peer' = None
    /\ UNCHANGED << link, admissions >>
    /\ UNCHANGED << rx_vars, ext_vars >>

\* ble.py:262: the pause ends and the loop advertises again
PauseDone ==
    /\ pc = "pause"
    /\ pc' = "advertise"
    /\ conn' = None
    /\ UNCHANGED << authorized_peer, link, admissions >>
    /\ UNCHANGED << rx_vars, ext_vars >>

-----------------------------------------------------------------------------
(* rx_ch and rx_task, ble.py:59-65 and 129-219 *)

\* a connected central writes the Command/RX characteristic: the GATT server
\* stores the bytes and signals the write (ble.py:59-65, write=True)
PeerWrite(d) ==
    /\ link # None
    /\ rx_data' = d
    /\ rx_from' = link
    /\ rx_written' = TRUE
    /\ UNCHANGED << rx_pc, rx_value, sensor_data, rx_trace >>
    /\ UNCHANGED << periph_vars, ext_vars >>

\* ble.py:214-217, and the record of the pass
RxStore(s, r) ==
    /\ sensor_data' = Store(sensor_data, r.vals)
    /\ rx_trace' = [ done |-> TRUE, from |-> rx_from, owner |-> authorized_peer,
                     data |-> rx_data, s |-> s, framing |-> r.framing,
                     tried |-> r.tried, json_raised |-> r.json_raised,
                     prior |-> sensor_data ]

\* ble.py:138-217 for the result dec of the decode of line 138: an exception
\* there is outside every try block and ends the task ("dead")
RxInterpret(dec) ==
    IF dec.ok
    THEN /\ RxStore(Strip(dec.text), interpret(Strip(dec.text)))
         /\ rx_pc' = "sleep"
    ELSE /\ rx_pc' = "dead"
         /\ UNCHANGED << sensor_data, rx_trace >>

\* ble.py:133-217: written() returns, the bytes are read, decoded, interpreted
\* and stored, all without suspension; the pass ends at the sleep of line 219.
RxTaskPass ==
    /\ rx_pc = "await"
    /\ rx_written
    /\ rx_written' = FALSE
    /\ rx_value' = [set |-> TRUE, data |-> rx_data]
    /\ RxInterpret(decode(rx_data))
    /\ UNCHANGED << rx_data, rx_from >>
    /\ UNCHANGED << periph_vars, ext_vars >>

\* ble.py:219
RxTaskSleepDone ==
    /\ rx_pc = "sleep"
    /\ rx_pc' = "await"
    /\ UNCHANGED << rx_written, rx_data, rx_from, rx_value, sensor_data, rx_trace >>
    /\ UNCHANGED << periph_vars, ext_vars >>

-----------------------------------------------------------------------------
(* Specifications *)

Next ==
    \/ \E p \in Peers : Connect(p)
    \/ Admit
    \/ DisconnectDone
    \/ RejectSleepDone
    \/ PeerDisconnects
    \/ AcceptedEnds
    \/ Raise
    \/ PauseDone
    \/ \E d \in SmallPayloads : PeerWrite(d)
    \/ RxTaskPass
    \/ RxTaskSleepDone

\* the admission loop and the command channel together
Spec == Init /\ [][Next]_vars

\* what an earlier write from the owner left in the shared dictionary
PriorWrites == { << >>, << "1", ",", "7", ",", "3" >> }
PriorStates == { Store(SensorInit, interpret(Strip(decode(d).text)).vals) : d \in PriorWrites }
Owner0 == << 0, 1 >>

\* the owner is connected and has just written one payload of Payloads
InitRx ==
    /\ authorized_peer = Owner0
    /\ pc = "accepted"
    /\ link = Owner0
    /\ conn = Owner0
    /\ rx_written = TRUE
    /\ rx_data \in Payloads
    /\ rx_from = Owner0
    /\ rx_pc = "await"
    /\ rx_value = [set |-> FALSE, data |-> << >>]
    /\ sensor_data \in PriorStates
    /\ rx_trace = NoTrace
    /\ admissions = [accepted |-> 1, rejected |-> 0]
    /\ ExtInit

NextRx ==
    \/ RxTaskPass
    \/ RxTaskSleepDone

\* the command channel alone, over every drawn payload
SpecRx == InitRx /\ [][NextRx]_vars

-----------------------------------------------------------------------------
(* Claims *)

Result == [pas |-> sensor_data.pas, speed |-> sensor_data.speed, c_range |-> sensor_data.c_range]

\* C1: once _authorized_peer holds a peer, no step of the system (disconnect,
\* reconnect, connection of another peer, rejection, exception) changes it.
C1_OwnerWriteOnce ==
    [][authorized_peer # None => authorized_peer' = authorized_peer]_vars

\* the owner is set, another peer has connected and been rejected
C1_Witness ==
    /\ authorized_peer # None
    /\ pc = "reject_sleep"
    /\ conn # authorized_peer
    /\ admissions.accepted >= 2

\* C2: with an owner set, a connection whose peer differs from the owner in
\* addr_type or in addr is only ever in the check, being disconnected, or on
\* the way back to advertising; it is never in the accepted state.
C2_NonOwnerNeverAccepted ==
    (authorized_peer # None /\ conn # None /\ conn # authorized_peer)
        => pc \in {"connected", "disconnecting", "reject_sleep", "pause"}

\* a peer with the owner's address bytes but another address type is being
\* disconnected
C2_Witness ==
    /\ authorized_peer # None
    /\ conn # None
    /\ conn[2] = authorized_peer[2]
    /\ conn[1] # authorized_peer[1]
    /\ pc = "disconnecting"

\* C3: whenever the admission check runs on a connection of the owner, it
\* leaves the link up and goes to the accepted state (awaiting the peer's
\* disconnect), however many accepts and rejections came before.
C3_OwnerAlwaysAccepted ==
    [][(pc = "connected" /\ authorized_peer # None /\ conn = authorized_peer
            /\ pc' # "connected")
        => (pc' = "accepted" /\ link' = link)]_vars

\* the owner is accepted again after an earlier accept and a rejection of another peer
C3_Witness ==
    /\ pc = "accepted"
    /\ conn = authorized_peer
    /\ link = conn
    /\ admissions.accepted >= 2
    /\ admissions.rejected >= 1

\* C4: every write rx_task has merged into sensor_data was made by the owner.
C4_OnlyOwnerWritesMerged ==
    (rx_trace.done /\ authorized_peer # None) => rx_trace.from = authorized_peer

\* the result of the one framing the fixed order selects for s, from the defaults
SoleFraming(s) ==
    IF JsonTriggered(s) /\ JsonFraming(s, Defaults).parsed THEN JsonFraming(s, Defaults).vals
    ELSE IF KvTriggered(s) THEN KvFraming(s, Defaults).vals
    ELSE IF CsvTriggered(s) THEN CsvFraming(s, Defaults).vals
    ELSE Fallback(s, Defaults)

\* C5: the stored result is the result of exactly one framing, the first in the
\* order JSON, key:value, CSV, fallback whose condition holds.
C5_OneFramingDecides ==
    rx_trace.done => Result = SoleFraming(rx_trace.s)

\* the pass over s entered with speed_val = c_range_val = x instead of 0.0
StartWith(x) == [Start EXCEPT !.vals = [pas |-> Str(<< >>), speed |-> x, c_range |-> x]]

\* no framing assigned the field: the final local still follows the initial one
SpeedUnassigned(s) ==
    interpretFrom(s, StartWith(1)).vals.speed # interpretFrom(s, StartWith(2)).vals.speed
RangeUnassigned(s) ==
    interpretFrom(s, StartWith(1)).vals.c_range # interpretFrom(s, StartWith(2)).vals.c_range

\* the winning framing is one of those the claim lists and left the field alone
SpeedNotProduced ==
    rx_trace.framing \in {"fallback", "csv", "kv"} /\ SpeedUnassigned(rx_trace.s)
RangeNotProduced ==
    rx_trace.framing \in {"fallback", "csv", "kv"} /\ RangeUnassigned(rx_trace.s)

C8_KvNeverFallsThrough ==
    (rx_trace.done /\ KvTriggered(rx_trace.s) /\ rx_trace.framing # "json") =>
        /\ rx_trace.framing = "kv"
        /\ rx_trace.tried \cap {"csv", "fallback"} = {}
        /\ (rx_trace.s = << "a", ":", "b", ",", "c" >> => sensor_data.pas = Str(<< >>))

\* "a:b,c" was processed
C8_Witness ==
    /\ rx_trace.done
    /\ rx_trace.s = << "a", ":", "b", ",", "c" >>
    /\ rx_trace.framing = "kv"
    /\ sensor_data.pas = Str(<< >>)

\* the number a JSON member gives under the claim: 0 when absent or non-numeric
NumberOrZero(x) == IF FloatOrZero(x).ok THEN FloatOrZero(x).val ELSE 0

\* C9: for a text that is a valid JSON object the JSON framing succeeds, speed
\* and range are the member's number or 0, and pas is member pas, else rx.
C9_JsonNonNumericIsZero ==
    (rx_trace.done /\ JsonTriggered(rx_trace.s) /\ loads(rx_trace.s).ok) =>
        /\ rx_trace.framing = "json"
        /\ sensor_data.speed = NumberOrZero(get(loads(rx_trace.s).obj, kSpeed, Num(0)))
        /\ sensor_data.c_range = NumberOrZero(get(loads(rx_trace.s).obj, kCRange, Num(0)))
        /\ sensor_data.pas = get(loads(rx_trace.s).obj, kPas,
                                 get(loads(rx_trace.s).obj, kRx, Str(<< >>)))

\* C10: when the JSON branch ended in its except clause, the stored result is
\* what the key:value, CSV and fallback framings give from the defaults.
C10_FailedJsonLeavesNothing ==
    (rx_trace.done /\ rx_trace.json_raised) =>
        Result = TryFallback(rx_trace.s, TryCsv(rx_trace.s, TryKv(rx_trace.s, Start))).vals

-----------------------------------------------------------------------------
(* ble_update, ble.py:86-121 *)
(* A float argument is an integer count of thousandths (12.5 V is 12500);  *)
(* battery_level is an int.  A characteristic value is a sequence of bytes. *)

\* Python int() of the quotient num / den, den > 0: truncation toward zero
Trunc(num, den) == IF num >= 0 THEN num \div den ELSE -((-num) \div den)

\* int(x * k) for the float x of m thousandths and den = 1000 / k: the float
\* product is the exact m / den moved by at most one rounding (e half-units
\* of the last place, far below one unit), then truncated
IntOfProduct(m, den, e) == Trunc(2 * m + e, 2 * den)

\* the roundings a float product can carry
FloatErr == { -1, 0, 1 }

\* struct.pack of one integer: the formats of ble.py:101-121
FmtMin(fmt) == IF fmt = "<h" THEN -32768 ELSE 0
FmtMax(fmt) == IF fmt = "<h" THEN 32767 ELSE IF fmt = "<H" THEN 65535 ELSE 255
LE16(n) == << (n % 65536) % 256, (n % 65536) \div 256 >>
PackBytes(fmt, n) == IF fmt = "B" THEN << n % 256 >> ELSE LE16(n)

\* what struct.pack does with an integer outside the format's range depends
\* on the interpreter: it keeps the low bytes ("wrap") or raises ("raise")
PackModes == { "wrap", "raise" }

pack(fmt, n, mode) ==
    IF (n >= FmtMin(fmt) /\ n <= FmtMax(fmt)) \/ mode = "wrap"
    THEN [ok |-> TRUE, bytes |-> PackBytes(fmt, n)]
    ELSE [ok |-> FALSE, bytes |-> << >>]

\* ble.py:100, 104
v_mv(voltage, e) == IntOfProduct(voltage, 1, e)
i_ma(current, e) == IntOfProduct(current, 1, e)

\* mutant: no saturation of the truncated power
PowerUnclamped(n) == n

\* ble.py:109-112
PowerClamped(n) == IF n < 0 THEN 0 ELSE IF n > 65535 THEN 65535 ELSE n

\* ble.py:108-112
p_w(power) == PowerClamped(Trunc(power, 1000))

\* ble.py:116
t_100(temperature, e) == IntOfProduct(temperature, 10, e)

Min2(a, b) == IF a < b THEN a ELSE b
Max2(a, b) == IF a > b THEN a ELSE b

\* ble.py:120
lvl(battery_level) == Max2(0, Min2(100, battery_level))

\* characteristic.write(bytes, send_update=True): the value is stored and, when
\* a client has subscribed, a notification carrying it is sent.  r carries the
\* call so far; an exception in struct.pack ends the call before the write.
WriteCh(r, name, p) ==
    IF r.raised \/ ~p.ok
    THEN [r EXCEPT !.raised = TRUE]
    ELSE [ chars |-> [r.chars EXCEPT ![name] = p.bytes],
           raised |-> FALSE,
           written |-> r.written \cup {name},
           sent |-> Append(r.sent, [ch |-> name, data |-> p.bytes]) ]

CallStart(ch) == [ chars |-> ch, raised |-> FALSE, written |-> {}, sent |-> << >> ]

\* ble.py:99-121, the five writes in program order
ble_update(ch, s, e, mode) ==
    WriteCh(
      WriteCh(
        WriteCh(
          WriteCh(
            WriteCh(CallStart(ch), "voltage", pack("<H", v_mv(s.voltage, e), mode)),
            "current", pack("<h", i_ma(s.current, e), mode)),
          "power", pack("<H", p_w(s.power), mode)),
        "temperature", pack("<h", t_100(s.temperature, e), mode)),
      "battery", pack("B", lvl(s.battery_level), mode))

\* how far the drawn inputs reach around each edge of a range
Spread == 2
Around(c) == (c - Spread) .. (c + Spread)

\* a sample inside every range
BaseSample ==
    [ voltage |-> 12500, current |-> 1500, power |-> 18750, temperature |-> 25000,
      battery_level |-> 80 ]

VoltageInputs == Around(0) \cup Around(65535) \cup { 1001, 70000 }
CurrentInputs == Around(-32768) \cup Around(0) \cup Around(32767) \cup { -40000, 40000 }
PowerInputs ==
    { 1000 * w : w \in Around(0) \cup Around(65535) }
        \cup { -5000, -500, 12700, 65535999, 100000000 }
TemperatureInputs ==
    { 10 * h : h \in Around(-32768) \cup Around(0) \cup Around(32767) }
        \cup { 295, -295, 400000, 1000000, -500000, 3276700, -3276800 }
BatteryInputs == Around(0) \cup Around(100) \cup { -10, 150, 255, 300 }

\* the base sample with one argument replaced by each of its inputs
Samples ==
    { [BaseSample EXCEPT !.voltage = x] : x \in VoltageInputs }
        \cup { [BaseSample EXCEPT !.current = x] : x \in CurrentInputs }
        \cup { [BaseSample EXCEPT !.power = x] : x \in PowerInputs }
        \cup { [BaseSample EXCEPT !.temperature = x] : x \in TemperatureInputs }
        \cup { [BaseSample EXCEPT !.battery_level = x] : x \in BatteryInputs }

\* the notifications the link can hold
MaxInFlight == 10

\* send_update=True notifies the characteristics the client subscribed to
Subscribed(m) == m.ch \in subscribed
Enqueue(q, sent) == q \o SelectSeq(sent, Subscribed)

\* the values published to the client, per characteristic, oldest first
Published(ex, r) ==
    [c \in CharNames |->
        IF c \in subscribed /\ c \in r.written THEN Append(ex[c], r.chars[c]) ELSE ex[c]]

\* one call of ble_update(s...) by the application; r is its outcome
BleUpdateDone(s, r) ==
    /\ chars' = r.chars
    /\ upd' = [ called |-> TRUE, sample |-> s, raised |-> r.raised, written |-> r.written ]
    /\ notify_q' = Enqueue(notify_q, r.sent)
    /\ sub_trace' = [sub_trace EXCEPT !.expect = Published(@, r)]
    /\ UNCHANGED << subscribed, sensor_state >>
    /\ UNCHANGED << periph_vars, rx_vars, host_vars >>

BleUpdate(s, e, mode) ==
    /\ Len(notify_q) + 5 <= MaxInFlight
    /\ BleUpdateDone(s, ble_update(chars, s, e, mode))

NextCodec == \E s \in Samples, e \in FloatErr, mode \in PackModes : BleUpdate(s, e, mode)

\* the publisher alone, over every drawn sample
SpecCodec == Init /\ [][NextCodec]_vars

-----------------------------------------------------------------------------
(* the desktop client's decoders, ebike_gui.py:45-50; a float result is an *)
(* integer count of thousandths, as for the arguments of ble_update        *)

\* int.from_bytes(b, "little") of two bytes, unsigned and signed
FromLE(b) == b[1] + 256 * b[2]
FromLESigned(b) == IF FromLE(b) >= 32768 THEN FromLE(b) - 65536 ELSE FromLE(b)

\* ebike_gui.py:46: millivolts / 1000.0, that many thousandths of a volt
decode_voltage(b) == FromLE(b)
\* ebike_gui.py:47
decode_current(b) == FromLESigned(b)
\* ebike_gui.py:48: the unsigned integer / 1000, that many thousandths
decode_power(b) == FromLE(b)
\* ebike_gui.py:49
decode_battery(b) == b[1]
\* mutant: the temperature bytes read as unsigned
decode_temp_unsigned(b) == 10 * FromLE(b)

\* ebike_gui.py:50: hundredths / 100.0, ten thousandths each
decode_temp(b) == 10 * FromLESigned(b)

-----------------------------------------------------------------------------
(* Claims on the publisher's encodings *)

\* the input x held between lo and hi
ClampTo(x, lo, hi) == IF x < lo THEN lo ELSE IF x > hi THEN hi ELSE x

\* C11: every power the call encodes is the two-byte encoding of the input
\* clamped to [0, 65535] W, and every battery level it encodes is the one-byte
\* encoding of the input clamped to [0, 100]; so -5 W gives the bytes of 0,
\* 100000 W those of 65535, 150 % those of 100 and -10 % those of 0.
C11_PowerBatterySaturate ==
    /\ "power" \in upd.written
         => chars.power = LE16(Trunc(ClampTo(upd.sample.power, 0, 65535000), 1000))
    /\ "battery" \in upd.written
         => chars.battery = << ClampTo(upd.sample.battery_level, 0, 100) >>
    /\ ("power" \in upd.written /\ upd.sample.power = -5000) => chars.power = << 0, 0 >>
    /\ ("power" \in upd.written /\ upd.sample.power = 100000000)
         => chars.power = << 255, 255 >>
    /\ ("battery" \in upd.written /\ upd.sample.battery_level = 150)
         => chars.battery = << 100 >>
    /\ ("battery" \in upd.written /\ upd.sample.battery_level = -10)
         => chars.battery = << 0 >>

\* a call with power 100000 W has written the power characteristic
C11_Witness ==
    /\ upd.called
    /\ upd.sample.power = 100000000
    /\ "power" \in upd.written
    /\ chars.power = << 255, 255 >>

\* the sample's temperature in hundredths of a degree, as int() leaves it
Hundredths(s) == Trunc(s.temperature, 10)

\* C12: a call whose temperature in hundredths lies outside [-32768, 32767]
\* does not raise, leaves the two-byte encoding of the nearest bound in the
\* temperature characteristic, and goes on to write the battery level.
C12_TemperatureSaturates ==
    (upd.called /\ (Hundredths(upd.sample) < -32768 \/ Hundredths(upd.sample) > 32767))
        => /\ ~upd.raised
           /\ "temperature" \in upd.written
           /\ chars.temperature = LE16(ClampTo(Hundredths(upd.sample), -32768, 32767))
           /\ "battery" \in upd.written

\* C13: for a whole number of watts w in [0, 65535], decode_power of the
\* bytes the call wrote for power w is w again (w * 1000 thousandths).
C13_PowerDecodeInverts ==
    ("power" \in upd.written /\ upd.sample.power % 1000 = 0
        /\ upd.sample.power >= 0 /\ upd.sample.power <= 65535000)
        => decode_power(chars.power) = upd.sample.power

Dist(a, b) == IF a >= b THEN a - b ELSE b - a

\* the voltage and current parts of the round trip: over the ranges the two
\* formats hold (0 .. 65.535 V, -32.768 .. 32.767 A) the call writes the
\* value and the decoded value is within 0.001 of the argument
VoltageCurrentRoundTrip ==
    /\ ("voltage" \in upd.written /\ upd.sample.voltage \in 0 .. 65535)
         => Dist(decode_voltage(chars.voltage), upd.sample.voltage) <= 1
    /\ ("current" \in upd.written /\ upd.sample.current \in -32768 .. 32767)
         => Dist(decode_current(chars.current), upd.sample.current) <= 1
    /\ (upd.called /\ upd.sample.voltage \in 0 .. 65535
            /\ upd.sample.current \in -32768 .. 32767)
         => {"voltage", "current"} \subseteq upd.written

\* the temperature part for arguments on the 0.01 grid between lo and hi
\* thousandths: the call writes the value, and decode_temp of the bytes is
\* within 0.01 of the argument
TemperatureRoundTrip(lo, hi) ==
    (upd.called /\ upd.sample.temperature % 10 = 0
        /\ upd.sample.temperature >= lo /\ upd.sample.temperature <= hi
        /\ {"voltage", "current"} \subseteq upd.written)
        => /\ "temperature" \in upd.written
           /\ Dist(decode_temp(chars.temperature), upd.sample.temperature) <= 10

\* C14: for every temperature from -3276.8 to 3276.7 in steps of 0.01 the
\* decoded bytes equal the argument to within 0.01, and voltage and current
\* round-trip over their representable ranges.
C14_RoundTripClaimedRange ==
    /\ TemperatureRoundTrip(-3276800, 3276700)
    /\ VoltageCurrentRoundTrip

\* C14 with the range the sint16 of hundredths can hold: for every
\* temperature from -327.68 to 327.67 in steps of 0.01 the decoded bytes equal
\* the argument to within 0.01, and voltage and current round-trip over their
\* representable ranges to within 0.001.
C14_RoundTripRepresentable ==
    /\ TemperatureRoundTrip(-327680, 327670)
    /\ VoltageCurrentRoundTrip

\* the lowest representable temperature, -327.68, has been written and
\* decodes to itself
C14_Witness ==
    /\ upd.sample.temperature = -327680
    /\ "temperature" \in upd.written
    /\ decode_temp(chars.temperature) = -327680

\* C16: after a call of ble_update that returned, the shared dictionary holds
\* the sample: voltage, current, power, temperature and battery of sensor_data
\* are the call's arguments (numbers in the scale of the arguments).
C16_PublishWritesSharedState ==
    (upd.called /\ ~upd.raised)
        => /\ sensor_data.voltage = upd.sample.voltage
           /\ sensor_data.current = upd.sample.current
           /\ sensor_data.power = upd.sample.power
           /\ "temperature" \in DOMAIN sensor_data
           /\ sensor_data["temperature"] = upd.sample.temperature
           /\ sensor_data.battery = upd.sample.battery_level

-----------------------------------------------------------------------------
(* the desktop client's subscriptions and handlers, ebike_gui.py:75-96 *)

\* ebike_gui.py:92-96: the order of the start_notify calls
SubscribeOrder == << "voltage", "current", "power", "battery", "temperature" >>

\* ebike_gui.py:92-96: the next start_notify completes
StartNotify ==
    /\ Cardinality(subscribed) < Len(SubscribeOrder)
    /\ subscribed' = subscribed \cup { SubscribeOrder[Cardinality(subscribed) + 1] }
    /\ UNCHANGED << chars, upd, notify_q, sensor_state, sub_trace >>
    /\ UNCHANGED << periph_vars, rx_vars, host_vars >>

\* the key of sensor_state a characteristic's handler assigns
Key(c) == IF c = "temperature" THEN "temp" ELSE c

\* the decoder each handler applies
Decode(c, b) ==
    CASE c = "voltage" -> decode_voltage(b)
      [] c = "current" -> decode_current(b)
      [] c = "power" -> decode_power(b)
      [] c = "battery" -> decode_battery(b)
      [] c = "temperature" -> decode_temp(b)

\* mutant: a handler that keeps the first value it was given
HandlerKeepsFirst(st, m) ==
    IF st[Key(m.ch)] = None THEN [st EXCEPT ![Key(m.ch)] = << Decode(m.ch, m.data) >>] ELSE st

\* ebike_gui.py:76-89: voltage_handler .. temp_handler
Handler(st, m) == [st EXCEPT ![Key(m.ch)] = << Decode(m.ch, m.data) >>]

\* the record of one handler call: was the value the oldest one published
\* for this characteristic and not yet delivered
Delivered(tr, m) ==
    [ expect |-> [tr.expect EXCEPT ![m.ch] = IF @ = << >> THEN @ ELSE Tail(@)],
      in_order |-> tr.in_order /\ tr.expect[m.ch] # << >> /\ Head(tr.expect[m.ch]) = m.data,
      seen |-> tr.seen \cup {m.ch} ]

\* the client's event loop takes the oldest notification off the link and
\* calls its handler, which runs to its end
Deliver ==
    /\ notify_q # << >>
    /\ sensor_state' = Handler(sensor_state, Head(notify_q))
    /\ sub_trace' = Delivered(sub_trace, Head(notify_q))
    /\ notify_q' = Tail(notify_q)
    /\ UNCHANGED << chars, upd, subscribed >>
    /\ UNCHANGED << periph_vars, rx_vars, host_vars >>

\* the samples published while a client listens: two that differ in every
\* argument and one whose temperature is out of range
NotifySamples ==
    { BaseSample,
      [ voltage |-> 11900, current |-> -300, power |-> 3630, temperature |-> -5000,
        battery_level |-> 79 ],
      [BaseSample EXCEPT !.temperature = 400000] }

NextNotify ==
    \/ StartNotify
    \/ \E s \in NotifySamples, mode \in PackModes : BleUpdate(s, 0, mode)
    \/ Deliver

\* the publisher with a subscribing client
SpecNotify == Init /\ [][NextNotify]_vars

-----------------------------------------------------------------------------
(* the polling loop, main.py:55-76; times are in milliseconds *)

\* main.py:53
display_interval == 1000
\* main.py:76
sleep_ms == 500

\* what the INA228 can return on one pass (vbus, curr, pwr in thousandths)
Readings ==
    { [ vbus |-> 12500, curr |-> 1500, pwr |-> 18750, valid |-> TRUE ],
      [ vbus |-> 11900, curr |-> 0, pwr |-> 0, valid |-> TRUE ],
      [ vbus |-> 12100, curr |-> -300, pwr |-> 3630, valid |-> TRUE ] }

\* the time one pass of the loop body takes on top of the sleep
BodyMs == { 0, 1 }

main_vars == << periph_vars, rx_vars, pub_vars, term_vars, display >>

\* main.py:56-61: the four reads succeed and the line is printed
MainRead(r) ==
    /\ main_loop.pc = "read"
    /\ main_loop' = [main_loop EXCEPT !.pc = "refresh", !.reading = r]
    /\ UNCHANGED main_vars

\* main.py:56-59: a read of the sensor raises (the I2C transfer fails); no
\* try statement encloses it, so the exception leaves the while loop and the
\* program
MainReadFails ==
    /\ main_loop.pc = "read"
    /\ main_loop' = [main_loop EXCEPT !.pc = "exited", !.failed = TRUE]
    /\ UNCHANGED main_vars

\* main.py:63-74: the e-paper is redrawn when more than display_interval has
\* passed since the last redraw
MainRefresh ==
    /\ main_loop.pc = "refresh"
    /\ main_loop' =
         IF main_loop.since > display_interval
         THEN [main_loop EXCEPT !.pc = "sleep", !.since = 0, !.shown = main_loop.reading]
         ELSE [main_loop EXCEPT !.pc = "sleep"]
    /\ UNCHANGED main_vars

\* main.py:76; the elapsed time is kept up to the first value past the
\* comparison of line 63
MainSleepDone(d) ==
    /\ main_loop.pc = "sleep"
    /\ main_loop' = [main_loop EXCEPT !.pc = "read",
                       !.since = Min2(@ + sleep_ms + d, display_interval + sleep_ms)]
    /\ UNCHANGED main_vars

NextMain ==
    \/ \E r \in Readings : MainRead(r)
    \/ MainReadFails
    \/ MainRefresh
    \/ \E d \in BodyMs : MainSleepDone(d)

\* the polling loop alone
SpecMain == Init /\ [][NextMain]_vars

\* C15: the pass in which a sensor read fails leaves the polling loop running
\* (at its sleep, or at the next read) and the five characteristic values as
\* they were; no exception leaves the loop.
C15_ReadFailureKeepsPolling ==
    [][(main_loop'.failed /\ ~main_loop.failed)
        => (main_loop'.pc \in {"read", "sleep"} /\ chars' = chars)]_vars

-----------------------------------------------------------------------------
(* the terminal client, ebike_terminal.py: ble_worker on the daemon thread  *)
(* of line 83 and the command loop on the main thread                      *)

TheClient == << "BleakClient" >>

\* the process has not exited; the daemon thread ends with the process
Alive == cmd_pc # "exited"

device_side == << periph_vars, rx_vars, pub_vars, main_loop, display >>

\* mutant: the event is set as soon as the client object exists
WorkerScanFoundSignals ==
    /\ Alive
    /\ worker_pc = "scan"
    /\ IF ble_running
       THEN client' = TheClient /\ worker_pc' = "connect" /\ connected_event' = TRUE
       ELSE worker_pc' = "finally" /\ UNCHANGED << client, connected_event >>
    /\ UNCHANGED << is_connected, ble_running, cmd_pc, fields, future, printed >>
    /\ UNCHANGED << device_side, outbound >>

\* ebike_terminal.py:42-47 and 55-59: the scan returns the device
WorkerScanFound ==
    /\ Alive
    /\ worker_pc = "scan"
    /\ IF ble_running
       THEN client' = TheClient /\ worker_pc' = "connect"
       ELSE worker_pc' = "finally" /\ UNCHANGED client
    /\ UNCHANGED << is_connected, ble_running, connected_event, cmd_pc, fields, future, printed >>
    /\ UNCHANGED << device_side, outbound >>

\* ebike_terminal.py:42-53: the scan returns nothing
WorkerScanEmpty ==
    /\ Alive
    /\ worker_pc = "scan"
    /\ worker_pc' = IF ble_running THEN "retry_sleep" ELSE "finally"
    /\ UNCHANGED << client, is_connected, ble_running, connected_event, cmd_pc, fields, future,
                    printed >>
    /\ UNCHANGED << device_side, outbound >>

\* ebike_terminal.py:53, 40 and 55-56: the 5 s sleep ends
WorkerRetryDone ==
    /\ Alive
    /\ worker_pc = "retry_sleep"
    /\ worker_pc' = IF ble_running THEN "scan" ELSE "finally"
    /\ UNCHANGED << client, is_connected, ble_running, connected_event, cmd_pc, fields, future,
                    printed >>
    /\ UNCHANGED << device_side, outbound >>

\* ebike_terminal.py:60-64: connect() returns
WorkerConnected ==
    /\ Alive
    /\ worker_pc = "connect"
    /\ is_connected' = TRUE
    /\ connected_event' = TRUE
    /\ worker_pc' = IF ble_running THEN "idle" ELSE "finally"
    /\ UNCHANGED << client, ble_running, cmd_pc, fields, future, printed >>
    /\ UNCHANGED << device_side, outbound >>

\* ebike_terminal.py:60 and 67-68: connect() raises
WorkerConnectFails ==
    /\ Alive
    /\ worker_pc = "connect"
    /\ worker_pc' = "finally"
    /\ UNCHANGED << client, is_connected, ble_running, connected_event, cmd_pc, fields, future,
                    printed >>
    /\ UNCHANGED << device_side, outbound >>

\* ebike_terminal.py:64-65: a 1 s sleep ends and ble_running is looked at
WorkerIdleTick ==
    /\ Alive
    /\ worker_pc = "idle"
    /\ worker_pc' = IF ble_running THEN "idle" ELSE "finally"
    /\ UNCHANGED << client, is_connected, ble_running, connected_event, cmd_pc, fields, future,
                    printed >>
    /\ UNCHANGED << device_side, outbound >>

\* ebike_terminal.py:69-74 up to the await of line 72, or to the end
WorkerFinally ==
    /\ Alive
    /\ worker_pc = "finally"
    /\ connected_event' = FALSE
    /\ IF client # None /\ is_connected
       THEN worker_pc' = "disconnect" /\ UNCHANGED client
       ELSE worker_pc' = "done" /\ client' = None
    /\ UNCHANGED << is_connected, ble_running, cmd_pc, fields, future, printed >>
    /\ UNCHANGED << device_side, outbound >>

\* ebike_terminal.py:72-74 and 79-80: disconnect() returns
WorkerDisconnected ==
    /\ Alive
    /\ worker_pc = "disconnect"
    /\ is_connected' = FALSE
    /\ client' = None
    /\ worker_pc' = "done"
    /\ UNCHANGED << ble_running, connected_event, cmd_pc, fields, future, printed >>
    /\ UNCHANGED << device_side, outbound >>

\* ebike_terminal.py:72: disconnect() raises inside the finally block, so line
\* 74 is not reached and the thread ends with the exception
WorkerDisconnectFails ==
    /\ Alive
    /\ worker_pc = "disconnect"
    /\ worker_pc' = "done"
    /\ UNCHANGED << client, is_connected, ble_running, connected_event, cmd_pc, fields, future,
                    printed >>
    /\ UNCHANGED << device_side, outbound >>

\* the device drops the link of a connected client
LinkLost ==
    /\ Alive
    /\ is_connected
    /\ is_connected' = FALSE
    /\ UNCHANGED << client, ble_running, connected_event, worker_pc, cmd_pc, fields, future,
                    printed >>
    /\ UNCHANGED << device_side, outbound >>

\* ebike_terminal.py:112: write_gatt_char, run by the worker's loop, returns
WriteCompletes ==
    /\ Alive
    /\ future = "pending"
    /\ worker_pc # "done"
    /\ is_connected
    /\ future' = "done"
    /\ UNCHANGED << client, is_connected, ble_running, connected_event, worker_pc, cmd_pc,
                    fields, printed >>
    /\ UNCHANGED << device_side, outbound >>

\* ebike_terminal.py:112: write_gatt_char raises
WriteFails ==
    /\ Alive
    /\ future = "pending"
    /\ worker_pc # "done"
    /\ future' = "failed"
    /\ UNCHANGED << client, is_connected, ble_running, connected_event, worker_pc, cmd_pc,
                    fields, printed >>
    /\ UNCHANGED << device_side, outbound >>

FieldNames == { "pas", "speed", "range", "dist" }

\* ebike_terminal.py:186-206: set <field> <value>
CmdSetTo(f, v) ==
    /\ cmd_pc = "input"
    /\ fields' = [fields EXCEPT ![f] = v]
    /\ printed' = "fields"
    /\ UNCHANGED << client, is_connected, ble_running, connected_event, worker_pc, cmd_pc, future >>
    /\ UNCHANGED << device_side, outbound >>

\* set <field> 2
CmdSet(f) == CmdSetTo(f, << "2" >>)

\* the decimal digits of the natural number n
RECURSIVE Digits(_)
Digits(n) ==
    IF n < 10 THEN << DigitChars[n + 1] >>
    ELSE Append(Digits(n \div 10), DigitChars[(n % 10) + 1])

\* the fraction digits of h hundredths, as repr prints them: "0", one digit,
\* or two
FracDigits(h) ==
    IF h % 10 = 0 THEN << DigitChars[(h \div 10) + 1] >>
    ELSE << DigitChars[(h \div 10) + 1], DigitChars[(h % 10) + 1] >>

\* f"{x}" for the float x of a hundredths, a >= 0
FormatUnsigned(a) == Digits(a \div 100) \o << "." >> \o FracDigits(a % 100)

\* ebike_terminal.py:88: f"{float(value)}"
FormatFloat(x) == IF x < 0 THEN << "-" >> \o FormatUnsigned(-x) ELSE FormatUnsigned(x)

\* ebike_terminal.py:86-90
sanitize_float(value) ==
    IF float(value).ok THEN FormatFloat(float(value).val) ELSE << "0" >>

\* ebike_terminal.py:169: pas_field.strip() or "0"
PasOrZero(s) == IF Strip(s) = << >> THEN << "0" >> ELSE Strip(s)

\* ebike_terminal.py:167-174
BuildPayload(f) ==
    Join(<< PasOrZero(f.pas), sanitize_float(Strip(f.speed)),
            sanitize_float(Strip(f.range)), sanitize_float(Strip(f.dist)) >>, << "," >>)

\* ebike_terminal.py:166-175 and 100-109: send, up to the return of
\* require_client
CmdSend ==
    /\ cmd_pc = "input"
    /\ outbound' = [ payload |-> BuildPayload(fields), staged |-> fields, built |-> TRUE ]
    /\ IF client # None
       THEN cmd_pc' = "submit" /\ UNCHANGED printed
       ELSE printed' = "not connected" /\ UNCHANGED cmd_pc
    /\ UNCHANGED << client, is_connected, ble_running, connected_event, worker_pc, fields, future >>
    /\ UNCHANGED device_side

\* ebike_terminal.py:111-114: client.write_gatt_char is looked up and the write
\* handed to the worker's loop; with client None by now the AttributeError is
\* raised outside the try of line 115 and leaves the command loop
CmdSubmit ==
    /\ cmd_pc = "submit"
    /\ IF client # None
       THEN future' = "pending" /\ cmd_pc' = "result" /\ UNCHANGED printed
       ELSE printed' = "traceback" /\ cmd_pc' = "finally" /\ UNCHANGED future
    /\ UNCHANGED << client, is_connected, ble_running, connected_event, worker_pc, fields >>
    /\ UNCHANGED << device_side, outbound >>

\* ebike_terminal.py:116-117
CmdResultOk ==
    /\ cmd_pc = "result"
    /\ future = "done"
    /\ printed' = "sent"
    /\ future' = "none"
    /\ cmd_pc' = "input"
    /\ UNCHANGED << client, is_connected, ble_running, connected_event, worker_pc, fields >>
    /\ UNCHANGED << device_side, outbound >>

\* mutant: a failed send stops the worker
CmdResultFailedStops ==
    /\ cmd_pc = "result"
    /\ future = "failed"
    /\ printed' = "send failed"
    /\ future' = "none"
    /\ cmd_pc' = "input"
    /\ ble_running' = FALSE
    /\ UNCHANGED << client, is_connected, connected_event, worker_pc, fields >>
    /\ UNCHANGED << device_side, outbound >>

\* ebike_terminal.py:116 and 118-119: the write raised
CmdResultFailed ==
    /\ cmd_pc = "result"
    /\ future = "failed"
    /\ printed' = "send failed"
    /\ future' = "none"
    /\ cmd_pc' = "input"
    /\ UNCHANGED << client, is_connected, ble_running, connected_event, worker_pc, fields >>
    /\ UNCHANGED << device_side, outbound >>

\* ebike_terminal.py:116 and 118-119: 5 s pass without a result; the write is
\* not cancelled
CmdResultTimeout ==
    /\ cmd_pc = "result"
    /\ future = "pending"
    /\ printed' = "send failed"
    /\ cmd_pc' = "input"
    /\ UNCHANGED << client, is_connected, ble_running, connected_event, worker_pc, fields, future >>
    /\ UNCHANGED << device_side, outbound >>

\* ebike_terminal.py:155-157
CmdWait ==
    /\ cmd_pc = "input"
    /\ cmd_pc' = "wait"
    /\ printed' = "waiting"
    /\ UNCHANGED << client, is_connected, ble_running, connected_event, worker_pc, fields, future >>
    /\ UNCHANGED << device_side, outbound >>

\* ebike_terminal.py:157-160
CmdWaitDone ==
    /\ cmd_pc = "wait"
    /\ connected_event
    /\ printed' = IF client # None THEN "connected" ELSE printed
    /\ cmd_pc' = "input"
    /\ UNCHANGED << client, is_connected, ble_running, connected_event, worker_pc, fields, future >>
    /\ UNCHANGED << device_side, outbound >>

\* ebike_terminal.py:147-149
CmdQuit ==
    /\ cmd_pc = "input"
    /\ printed' = "exiting"
    /\ cmd_pc' = "finally"
    /\ UNCHANGED << client, is_connected, ble_running, connected_event, worker_pc, fields, future >>
    /\ UNCHANGED << device_side, outbound >>

\* ebike_terminal.py:210-211: KeyboardInterrupt wherever the loop is
CmdInterrupt ==
    /\ cmd_pc \in { "input", "submit", "result", "wait" }
    /\ printed' = "interrupt"
    /\ cmd_pc' = "finally"
    /\ UNCHANGED << client, is_connected, ble_running, connected_event, worker_pc, fields, future >>
    /\ UNCHANGED << device_side, outbound >>

\* ebike_terminal.py:212-213 and 130-137
shutdown ==
    /\ cmd_pc = "finally"
    /\ ble_running' = FALSE
    /\ connected_event' = TRUE
    /\ cmd_pc' = "exit"
    /\ UNCHANGED << client, is_connected, worker_pc, fields, future, printed >>
    /\ UNCHANGED << device_side, outbound >>

\* ebike_terminal.py:215-216: the main thread ends and with it the process;
\* nothing joins the daemon thread
CmdExit ==
    /\ cmd_pc = "exit"
    /\ cmd_pc' = "exited"
    /\ UNCHANGED << client, is_connected, ble_running, connected_event, worker_pc, fields,
                    future, printed >>
    /\ UNCHANGED << device_side, outbound >>

NextTerm ==
    \/ WorkerScanFound
    \/ WorkerScanEmpty
    \/ WorkerRetryDone
    \/ WorkerConnected
    \/ WorkerConnectFails
    \/ WorkerIdleTick
    \/ WorkerFinally
    \/ WorkerDisconnected
    \/ WorkerDisconnectFails
    \/ LinkLost
    \/ WriteCompletes
    \/ WriteFails
    \/ \E f \in FieldNames : CmdSet(f)
    \/ CmdSend
    \/ CmdSubmit
    \/ CmdResultOk
    \/ CmdResultFailed
    \/ CmdResultTimeout
    \/ CmdWait
    \/ CmdWaitDone
    \/ CmdQuit
    \/ CmdInterrupt
    \/ shutdown
    \/ CmdExit

\* the terminal client: its worker thread and its command loop
SpecTerm == Init /\ [][NextTerm]_vars

\* C19: when the process has exited after quit or an interrupt, the worker
\* has left its loop and finished, the connection is closed, and client is
\* None, wherever the worker was when the command came.
C19_WorkerStoppedAtExit ==
    cmd_pc = "exited" => (worker_pc = "done" /\ ~is_connected /\ client = None)

\* C20: the step that reports a failed or timed-out write prints the
\* "Send failed" line and changes nothing else: the worker's position and
\* ble_running, the connection, client and the staged fields are as before,
\* and the command loop is back at its prompt.
C20_FailedSendOnlyReported ==
    [][(cmd_pc = "result" /\ cmd_pc' # "result" /\ cmd_pc' # "finally")
        => \/ printed' = "sent"
           \/ /\ printed' = "send failed"
              /\ cmd_pc' = "input"
              /\ worker_pc' = worker_pc
              /\ ble_running' = ble_running
              /\ is_connected' = is_connected
              /\ client' = client
              /\ fields' = fields
              /\ connected_event' = connected_event]_vars

\* a write timed out while the client was connected with staged fields
\* changed; the loop is at its prompt, the worker idles, the link is up
C20_Witness ==
    /\ printed = "send failed"
    /\ cmd_pc = "input"
    /\ future = "pending"
    /\ worker_pc = "idle"
    /\ is_connected
    /\ client = TheClient
    /\ fields.speed = << "2" >>

-----------------------------------------------------------------------------
(* Claims on the command channel under repeated writes *)

\* C18: every completed write is interpreted and stored exactly once: a write
\* replaces the bytes of the Command/RX characteristic only after a pass of
\* rx_task has taken the bytes of the write before it (none is skipped), and
\* a pass runs only on a write no pass has taken yet (none is processed
\* twice), also for writes that arrive while rx_task sleeps.
C18_EveryWriteProcessedOnce ==
    [][/\ rx_data' # rx_data => ~rx_written
       /\ rx_trace' # rx_trace => rx_written]_vars

-----------------------------------------------------------------------------
(* Claims on the admission loop's progress *)

NextPeriph ==
    \/ \E p \in Peers : Connect(p)
    \/ Admit
    \/ DisconnectDone
    \/ RejectSleepDone
    \/ PeerDisconnects
    \/ AcceptedEnds
    \/ Raise
    \/ PauseDone

\* the admission loop alone, with the scheduler's guarantees: a sleep that
\* was started ends (ble.py:247, 262), disconnect() ends (ble.py:246), and
\* disconnected() returns once the link is down (ble.py:251)
SpecPeriphLive ==
    /\ Init
    /\ [][NextPeriph]_vars
    /\ WF_vars(PauseDone)
    /\ WF_vars(RejectSleepDone)
    /\ WF_vars(DisconnectDone)
    /\ WF_vars(AcceptedEnds)

\* C21: peripheral_task is always at one of the positions of its loop, and
\* from the owner's disconnect, from the rejection of a non-owner and from
\* the handler of an exception it gets back to advertising.
C21_AlwaysAdvertisesAgain ==
    /\ [](pc \in {"advertise", "connected", "disconnecting", "reject_sleep",
                  "accepted", "pause"})
    /\ ((pc = "accepted" /\ link = None) ~> (pc = "advertise"))
    /\ ((pc \in {"disconnecting", "reject_sleep"}) ~> (pc = "advertise"))
    /\ ((pc = "pause") ~> (pc = "advertise"))

\* after an owner was accepted and a non-owner rejected, the loop is in its
\* pause on the way back to advertising
C21_Witness ==
    /\ pc = "pause"
    /\ authorized_peer # None
    /\ admissions.accepted >= 1
    /\ admissions.rejected >= 1

-----------------------------------------------------------------------------
(* Claims on the renderer, display.py *)

\* display.py:96-100: the text drawn for the truth value of data["connected"]
draw_connection_status(connected) == IF connected THEN "Connected" ELSE "Disconnected"

\* C22: the shared field connected follows the connection: with the owner
\* accepted and its link up the field is true and the renderer would draw
\* "Connected"; with no peer connected it is false and the renderer would
\* draw "Disconnected".
C22_ConnectedTracksOwner ==
    /\ (pc = "accepted" /\ link # None /\ link = authorized_peer)
         => draw_connection_status(sensor_data.connected) = "Connected"
    /\ link = None
         => draw_connection_status(sensor_data.connected) = "Disconnected"

-----------------------------------------------------------------------------
(* the terminal client's send, end to end with the device's rx_task *)

\* the values the operator stages with set: plain ones, a non-numeric speed,
\* and pas texts that hold the separators of the device's framings
StagedValues(f) ==
    CASE f = "pas" -> { << "2" >>, << "e", "c", "o" >>, << "p", "a", "s", ":", "3" >>,
                        << "s", "p", "e", "e", "d", ":", "9" >>, << "1", ",", "4" >> }
      [] f = "speed" -> { << "5", ".", "5" >>, << "7" >>, << "a", "b", "c" >> }
      [] f = "range" -> { << "1", "0" >>, << "-", "1", ".", "2", "5" >> }
      [] f = "dist" -> { << "3" >> }

\* ebike_terminal.py:112 and ble.py:59-65: the write of payload.encode()
\* completes: the device's GATT server has stored the bytes and signalled
\* the write, the future has its result
WriteDelivered ==
    /\ Alive
    /\ future = "pending"
    /\ worker_pc # "done"
    /\ is_connected
    /\ link # None
    /\ future' = "done"
    /\ rx_data' = outbound.payload
    /\ rx_from' = link
    /\ rx_written' = TRUE
    /\ UNCHANGED << client, is_connected, ble_running, connected_event, worker_pc, cmd_pc,
                    fields, printed, outbound >>
    /\ UNCHANGED << rx_pc, rx_value, sensor_data, rx_trace >>
    /\ UNCHANGED << periph_vars, pub_vars, main_loop, display >>

\* the terminal client is the owner, connected and idle; the device has been
\* written to before or not
InitSend ==
    /\ authorized_peer = Owner0
    /\ pc = "accepted"
    /\ link = Owner0
    /\ conn = Owner0
    /\ rx_written = FALSE
    /\ rx_data = << >>
    /\ rx_from = None
    /\ rx_pc = "await"
    /\ rx_value = [set |-> FALSE, data |-> << >>]
    /\ sensor_data \in PriorStates
    /\ rx_trace = NoTrace
    /\ admissions = [accepted |-> 1, rejected |-> 0]
    /\ chars = CharsInit
    /\ upd = NoUpdate
    /\ subscribed = {}
    /\ notify_q = << >>
    /\ sensor_state = StateInit
    /\ sub_trace = NoDeliveries
    /\ main_loop = MainInit
    /\ client = TheClient
    /\ is_connected = TRUE
    /\ ble_running = TRUE
    /\ connected_event = TRUE
    /\ worker_pc = "idle"
    /\ cmd_pc = "input"
    /\ fields = FieldsInit
    /\ future = "none"
    /\ printed = "help"
    /\ outbound = NoOutbound
    /\ display = DisplayInit

\* the operator stages the fields with set, then sends (once or repeatedly)
StageBeforeSend(f, v) == ~outbound.built /\ CmdSetTo(f, v)

NextSend ==
    \/ \E f \in FieldNames : \E v \in StagedValues(f) : StageBeforeSend(f, v)
    \/ CmdSend
    \/ CmdSubmit
    \/ WriteDelivered
    \/ CmdResultOk
    \/ RxTaskPass
    \/ RxTaskSleepDone

\* set and send on a connected terminal client, and the device's rx_task
SpecSend == InitSend /\ [][NextSend]_vars

\* the number a staged text stands for, 0 when it is not numeric
StagedNumber(v) == IF float(Strip(v)).ok THEN float(Strip(v)).val ELSE 0

\* rx_task has processed the payload of the last send
SendProcessed == outbound.built /\ rx_trace.done /\ rx_trace.data = outbound.payload

\* C23: once the device has processed the payload of a send, sensor_data has
\* the staged pas ("0" for a blank one) as pas, the staged speed and range as
\* numbers (0 for a non-numeric text) as speed and c_range, and every other
\* field as it was before.
C23_SendAgreesWithInterpreter ==
    (SendProcessed /\ rx_pc = "sleep")
        => /\ sensor_data.pas = Str(PasOrZero(outbound.staged.pas))
           /\ sensor_data.speed = StagedNumber(outbound.staged.speed)
           /\ sensor_data.c_range = StagedNumber(outbound.staged.range)
           /\ sensor_data = [rx_trace.prior EXCEPT !.pas = sensor_data.pas,
                                                   !.speed = sensor_data.speed,
                                                   !.c_range = sensor_data.c_range]

-----------------------------------------------------------------------------
(* the wait command *)

\* the terminal client, where a thread blocked in connected_event.wait()
\* (ebike_terminal.py:157) is woken once the event is set
SpecTermLive == Init /\ [][NextTerm]_vars /\ WF_vars(CmdWaitDone)

\* ble_worker is past the connect() of line 60 with the client of line 59
ConnectCompleted == client = TheClient /\ worker_pc = "idle"

\* C24: as long as shutdown has not been called (ble_running is still true),
\* connected_event is set only where client is the BleakClient and its
\* connect() has returned; the wait command goes back to the prompt only in
\* such a state; and a wait that is blocked returns once the worker has
\* reached that state.
C24_WaitReturnsWhenReady ==
    /\ []((ble_running /\ connected_event) => ConnectCompleted)
    /\ [][(cmd_pc = "wait" /\ cmd_pc' = "input") => (ConnectCompleted /\ printed' = "connected")]_vars
    /\ ((cmd_pc = "wait" /\ ConnectCompleted /\ connected_event) ~> (cmd_pc # "wait"))

\* a wait has returned on the connected client
C24_Witness ==
    cmd_pc = "input" /\ printed = "connected" /\ ble_running /\ connected_event /\ ConnectCompleted

-----------------------------------------------------------------------------
(* send_payload against ble_worker *)

\* the step of send_payload past require_client: lines 111-114
SubmitStep == cmd_pc = "submit" /\ cmd_pc' # "submit" /\ printed' # "interrupt"

\* C25: whenever send_payload goes past require_client, it submits the
\* write, on a client whose connect() has returned and that the worker has
\* not reset: the worker is not still connecting, and client is not None at
\* the lookup of write_gatt_char.
C25_SubmitsOnlyWhenConnected ==
    [][SubmitStep => (future' = "pending" /\ client = TheClient /\ worker_pc = "idle")]_vars

-----------------------------------------------------------------------------
(* display_task against rx_task, on one asyncio loop *)

\* the payloads the owner writes while the display runs
ShowPayloads ==
    { << "1", ",", "7", ",", "3" >>, << "2", ",", "5", ",", "9" >>, << "9" >> }

\* the three values of the claim, as render_dashboard reads them
\* (display.py:120, 122 and 130)
Shown(sd) == [ pas |-> sd.pas, speed |-> sd.speed, c_range |-> sd.c_range ]

\* display.py:151-155: one render_dashboard call, which reads the shared
\* dictionary without suspension, up to the sleep of line 155
DisplayRender ==
    /\ display.pc = "render"
    /\ display' = [ pc |-> "sleep", rendered |-> TRUE, shown |-> Shown(sensor_data),
                    after |-> [ done |-> rx_trace.done, s |-> rx_trace.s ] ]
    /\ UNCHANGED << periph_vars, rx_vars, pub_vars, main_loop, term_vars >>

\* display.py:155
DisplaySleepDone ==
    /\ display.pc = "sleep"
    /\ display' = [display EXCEPT !.pc = "render"]
    /\ UNCHANGED << periph_vars, rx_vars, pub_vars, main_loop, term_vars >>

\* the owner is connected and has not written yet
InitShow ==
    /\ authorized_peer = Owner0
    /\ pc = "accepted"
    /\ link = Owner0
    /\ conn = Owner0
    /\ rx_written = FALSE
    /\ rx_data = << >>
    /\ rx_from = None
    /\ rx_pc = "await"
    /\ rx_value = [set |-> FALSE, data |-> << >>]
    /\ sensor_data = SensorInit
    /\ rx_trace = NoTrace
    /\ admissions = [accepted |-> 1, rejected |-> 0]
    /\ ExtInit

NextShow ==
    \/ \E d \in ShowPayloads : PeerWrite(d)
    \/ RxTaskPass
    \/ RxTaskSleepDone
    \/ DisplayRender
    \/ DisplaySleepDone

\* rx_task and display_task interleaved at their awaits
SpecShow == InitShow /\ [][NextShow]_vars

\* the three values one processed write stands for
WriteValues(s) == Shown(interpret(s).vals)

\* C26: the pas, speed and c_range that one render_dashboard call has read
\* are the three values of the write processed last before it, or the three
\* initial values when no write had been processed, never a mixture.
C26_RenderSeesWholeWrite ==
    display.rendered
        => display.shown = IF display.after.done THEN WriteValues(display.after.s)
                           ELSE Shown(SensorInit)

\* a render that followed a second processed write whose three values all
\* differ from the first one's
C26_Witness ==
    /\ display.rendered
    /\ display.after.done
    /\ display.shown = [ pas |-> Str(<< "2" >>), speed |-> 500, c_range |-> 900 ]
    /\ rx_trace.prior.speed = 700
    /\ rx_trace.prior.c_range = 300

====
